---- MODULE Spec2Model ----
(***************************************************************************)
(* Model of the FitIn nutrition application:                               *)
(*   - the calorie / macro calculator (calculateBMR, calculateCalories,    *)
(*     getGoalCalories),                                                   *)
(*   - the PremiumDetails form and its handleSubmit handler,               *)
(*   - the useAdminStatus query function.                                  *)
(*                                                                         *)
(* JavaScript numbers are IEEE-754 doubles.  A double is held here as a    *)
(* record [n, d, s]: the rational n/d (d > 0) displaced by an              *)
(* infinitesimal of sign s.  s = 0 means the double is exactly n/d;        *)
(* s = -1 / s = 1 means the double is the representable neighbour just     *)
(* below / above n/d that a multiplication by an inexact literal (1.15 is  *)
(* not a double) produced.  Math.round needs nothing more than this sign   *)
(* to decide the half-way cases.                                           *)
(***************************************************************************)
EXTENDS Integers, Sequences, FiniteSets, TLC

VARIABLES
    \* calculator
    details,        \* argument of calculateCalories (a UserDetails)
    results,        \* value returned by calculateCalories, or NoResult
    goalArgs,       \* arguments of the last getGoalCalories call, or NoResult
    goal,           \* value returned by getGoalCalories, or NoResult
    \* PremiumDetails
    height,         \* useState(''): text of the height field
    weight,         \* useState(''): text of the weight field
    age,            \* useState(''): text of the age field
    gender,         \* useState('male')
    activityLevel,  \* useState('moderately_active')
    isLoading,      \* useState(false), as last set by setIsLoading
    submitPc,       \* position of the running handleSubmit, "idle" if none
    submitted,      \* field values the running handleSubmit closed over
    upsertRequest,  \* payload of the upsert in flight, or NoResult
    user_details,   \* rows of the user_details table
    location,       \* current route
    toast,          \* last toast shown, or NoToast
    authChecked,    \* the checkAuth effect has run
    \* useAdminStatus
    session,        \* user signed in at the backend, or NoUser
    user_roles,     \* rows of the user_roles table
    queryPc,        \* position of the running queryFn, "idle" if none
    queryUser,      \* user that getUser returned to the running queryFn
    lookupIssued,   \* the running / last queryFn issued the user_roles lookup
    lookupResponse, \* {data, error} the lookup returned to the last queryFn
    adminStatus,    \* value returned by the last queryFn, or NoResult
    fetches         \* number of times the query function has been started

calcVars == <<details, results, goalArgs, goal>>

formVars ==
    <<height, weight, age, gender, activityLevel, isLoading, submitPc,
      submitted, upsertRequest, user_details, location, toast, authChecked>>

adminVars ==
    <<session, user_roles, queryPc, queryUser, lookupIssued, lookupResponse,
      adminStatus, fetches>>

vars == <<calcVars, formVars, adminVars>>

\* "Not called yet": a record with none of the fields of a returned value.
NoResult == [none |-> TRUE]

-----------------------------------------------------------------------------
(* Doubles *)

Abs(k) == IF k < 0 THEN -k ELSE k

Max(a, b) == IF a >= b THEN a ELSE b

RECURSIVE Pow2(_)
Pow2(k) == IF k <= 0 THEN 1 ELSE 2 * Pow2(k - 1)

RECURSIVE OddPart(_)
OddPart(k) == IF k % 2 = 0 THEN OddPart(k \div 2) ELSE k

\* n/d is a dyadic rational: a value a double of few bits holds exactly.
Dyadic(n, d) == n % OddPart(d) = 0

\* floor(log2(a/b)) for a, b > 0
RECURSIVE FloorLog2(_, _)
FloorLog2(a, b) ==
    IF a < b THEN FloorLog2(2 * a, b) - 1
    ELSE IF a < 2 * b THEN 0
    ELSE FloorLog2(a, 2 * b) + 1

DInt(k) == [n |-> k, d |-> 1, s |-> 0]

DRat(n, d) == [n |-> n, d |-> d, s |-> 0]

\* Comparison of two exact doubles.
DLe(x, y) == x.n * y.d <= y.n * x.d

DLt(x, y) == x.n * y.d < y.n * x.d

\* Sum and difference of exact doubles whose result is exact as well (all
\* operands are dyadic rationals of a few bits).
DAdd(x, y) == [n |-> x.n * y.d + y.n * x.d, d |-> x.d * y.d, s |-> 0]

DSub(x, y) == [n |-> x.n * y.d - y.n * x.d, d |-> x.d * y.d, s |-> 0]

\* A decimal literal of the source: the double it denotes is
\* num/den - err5 / (5 * 2^56).
Lit(num, den, err5) == [num |-> num, den |-> den, err5 |-> err5]

\* x * c for an exact double x and a literal c, as IEEE-754 round-to-nearest-
\* even computes it.  The exact product is P - x.err, P = x * num/den.  When P
\* is representable the product is P iff |x.err| is at most half an ulp of P
\* (P has few bits, so a tie goes to P); otherwise it is a neighbour of P on
\* the side of the error.  When P is not representable it is not a half-way
\* case of any later rounding, and the sign is immaterial.
FlMul(x, c) ==
    LET nn == x.n * c.num
        dd == x.d * c.den
    IN  IF ~Dyadic(nn, dd) \/ c.err5 = 0 \/ x.n = 0
        THEN [n |-> nn, d |-> dd, s |-> 0]
        ELSE LET E == FloorLog2(Abs(nn), dd)
                 towardZero == (x.n * c.err5 > 0) <=> (nn > 0)
                 atPow2 == IF E >= 0 THEN Abs(nn) = Pow2(E) * dd
                                     ELSE Abs(nn) * Pow2(-E) = dd
                 k == E + 3 - (IF atPow2 /\ towardZero THEN 1 ELSE 0)
                 within == Abs(x.n) * Abs(c.err5) * Pow2(-k)
                              <= x.d * 5 * Pow2(k)
             IN  [n |-> nn, d |-> dd,
                  s |-> IF within THEN 0
                        ELSE IF x.n * c.err5 > 0 THEN -1 ELSE 1]

\* x / k for a double x and a power of two k: exact.
DivPow2(x, k) == [x EXCEPT !.d = @ * k]

\* a / b for exact doubles a and b: correctly rounded, hence exact whenever the
\* quotient is representable; a quotient that is not representable is not a
\* half-way case of Math.round.
FlDiv(a, b) == [n |-> a.n * b.d, d |-> a.d * b.n, s |-> 0]

\* Variant of MathRound: exact halves away from zero.
MathRoundHalfAwayFromZero(x) ==
    LET f == x.n \div x.d
        r == x.n - f * x.d
    IN  IF 2 * r > x.d THEN f + 1
        ELSE IF 2 * r = x.d THEN (IF x.n >= 0 /\ x.s >= 0 THEN f + 1 ELSE f)
        ELSE f

\* Math.round: the nearest integer, exact halves toward +infinity.  -0 and 0
\* are the same integer here (they compare equal in JavaScript).
MathRound(x) ==
    LET f == x.n \div x.d
        r == x.n - f * x.d
    IN  IF 2 * r > x.d THEN f + 1
        ELSE IF 2 * r = x.d THEN (IF x.s >= 0 THEN f + 1 ELSE f)
        ELSE f

-----------------------------------------------------------------------------
(* Calculator *)

Genders == {"male", "female"}

ActivityLevels ==
    {"sedentary", "lightly_active", "moderately_active", "very_active",
     "extra_active"}

GoalTypes == {"cut", "bulk", "maintain"}

ACTIVITY_MULTIPLIERS ==
    [sedentary         |-> Lit(6, 5, 16),      \* 1.2
     lightly_active    |-> Lit(11, 8, 0),      \* 1.375
     moderately_active |-> Lit(31, 20, -16),   \* 1.55
     very_active       |-> Lit(69, 40, -32),   \* 1.725
     extra_active      |-> Lit(19, 10, 32)]    \* 1.9

\* Variant of CutFactor: the 20% applied as a surplus (1.2).
CutFactorSurplus == Lit(6, 5, 16)

CutFactor == Lit(4, 5, -16)          \* 0.8

BulkFactor == Lit(23, 20, 32)        \* 1.15

FatShare == Lit(1, 4, 0)             \* 0.25

GoalProteinShare == Lit(3, 10, 4)    \* 0.3

\* Variant of GoalCarbShare: 40% (0.4).
GoalCarbShareForty == Lit(2, 5, -8)

GoalCarbShare == Lit(9, 20, -4)      \* 0.45

\* Variant of HeightFactor: 6 for 6.25.
HeightFactorTruncated == Lit(6, 1, 0)

HeightFactor == Lit(25, 4, 0)        \* 6.25

\* Variant of WeightFactor: the weight term subtracted.
WeightFactorNegated == Lit(-10, 1, 0)

WeightFactor == Lit(10, 1, 0)        \* 10

AgeFactor == Lit(5, 1, 0)            \* 5

\* calculateBMR(weight, height, age, gender)
calculateBMR(w, h, a, g) ==
    LET base == DSub(DAdd(FlMul(w, WeightFactor), FlMul(h, HeightFactor)),
                     FlMul(a, AgeFactor))
    IN  IF g = "male" THEN DAdd(base, DInt(5))
        ELSE DSub(base, DInt(161))

\* fatCalories of calculateCalories, a function of maintenance alone.
FatCaloriesOf(maintenance) == MathRound(FlMul(DInt(maintenance), FatShare))

\* Variant of calculateCalories: a negative carbohydrate remainder is clamped
\* to zero.
calculateCaloriesClamped(d) ==
    LET bmr == calculateBMR(d.weight, d.height, d.age, d.gender)
        maintenance == MathRound(FlMul(bmr, ACTIVITY_MULTIPLIERS[d.activity_level]))
        fatCalories == FatCaloriesOf(maintenance)
        protein == MathRound(FlMul(d.weight, Lit(2, 1, 0)))
        carbCalories == maintenance - protein * 4 - fatCalories
    IN  [maintenance_calories |-> maintenance,
         cut_calories         |-> MathRound(FlMul(DInt(maintenance), CutFactor)),
         bulk_calories        |-> MathRound(FlMul(DInt(maintenance), BulkFactor)),
         protein_grams        |-> protein,
         carbs_grams          |-> Max(0, MathRound(DivPow2(DInt(carbCalories), 4))),
         fat_grams            |-> MathRound(FlDiv(DInt(fatCalories), DInt(9)))]

calculateCalories(d) ==
    LET bmr == calculateBMR(d.weight, d.height, d.age, d.gender)
        maintenance == MathRound(FlMul(bmr, ACTIVITY_MULTIPLIERS[d.activity_level]))
        cut == MathRound(FlMul(DInt(maintenance), CutFactor))
        bulk == MathRound(FlMul(DInt(maintenance), BulkFactor))
        protein == MathRound(FlMul(d.weight, Lit(2, 1, 0)))
        fatCalories == FatCaloriesOf(maintenance)
        fat == MathRound(FlDiv(DInt(fatCalories), DInt(9)))
        proteinCalories == protein * 4
        carbCalories == maintenance - proteinCalories - fatCalories
        carbs == MathRound(DivPow2(DInt(carbCalories), 4))
    IN  [maintenance_calories |-> maintenance,
         cut_calories         |-> cut,
         bulk_calories        |-> bulk,
         protein_grams        |-> protein,
         carbs_grams          |-> carbs,
         fat_grams            |-> fat]

\* Variant of getGoalCalories: the bulk target is rounded down.
getGoalCaloriesFloorBulk(maintenance, goalType) ==
    LET bulkProduct == FlMul(DInt(maintenance), BulkFactor)
        targetCalories ==
            IF goalType = "cut"
            THEN MathRound(FlMul(DInt(maintenance), CutFactor))
            ELSE IF goalType = "bulk"
            THEN bulkProduct.n \div bulkProduct.d
            ELSE maintenance
    IN  [calories |-> targetCalories,
         protein  |-> MathRound(DivPow2(FlMul(DInt(targetCalories), GoalProteinShare), 4)),
         carbs    |-> MathRound(DivPow2(FlMul(DInt(targetCalories), GoalCarbShare), 4)),
         fat      |-> MathRound(FlDiv(FlMul(DInt(targetCalories), FatShare), DInt(9)))]

getGoalCalories(maintenance, goalType) ==
    LET targetCalories ==
            IF goalType = "cut"
            THEN MathRound(FlMul(DInt(maintenance), CutFactor))
            ELSE IF goalType = "bulk"
            THEN MathRound(FlMul(DInt(maintenance), BulkFactor))
            ELSE maintenance
        protein == MathRound(DivPow2(FlMul(DInt(targetCalories), GoalProteinShare), 4))
        fat == MathRound(FlDiv(FlMul(DInt(targetCalories), FatShare), DInt(9)))
        carbs == MathRound(DivPow2(FlMul(DInt(targetCalories), GoalCarbShare), 4))
    IN  [calories |-> targetCalories,
         protein  |-> protein,
         carbs    |-> carbs,
         fat      |-> fat]

-----------------------------------------------------------------------------
(* Inputs of the calculator *)

\* Bounds of detailsSchema.
HeightMin == 100

HeightMax == 250

WeightMin == 30

WeightMax == 300

AgeMin == 13

AgeMax == 100

\* Number of half-unit (height, weight) or unit (age) steps sampled inward
\* from each end of a validated range; one step outward is sampled as well.
EdgeSteps == 2

\* Heights and weights are parseFloat results: multiples of one half here.
\* Ages are parseInt results: integers.
Edge2(lo, hi) ==
    ((2 * lo - 1) .. (2 * lo + EdgeSteps)) \cup ((2 * hi - EdgeSteps) .. (2 * hi + 1))

Heights == {DRat(k, 2) : k \in Edge2(HeightMin, HeightMax) \cup {100, 330, 360}}

Weights == {DRat(k, 2) : k \in Edge2(WeightMin, WeightMax) \cup {120, 160}}

Ages ==
    {DInt(k) : k \in ((AgeMin - 1) .. (AgeMin + EdgeSteps))
                     \cup ((AgeMax - EdgeSteps) .. (AgeMax + 1)) \cup {30, 60}}

\* Maintenance values the persistence layer hands to getGoalCalories.
StoredMaintenance == {2500}

UserDetails ==
    [height : Heights, weight : Weights, age : Ages, gender : Genders,
     activity_level : ActivityLevels]

InRange(x, lo, hi) == DLe(DInt(lo), x) /\ DLe(x, DInt(hi))

IsInteger(x) == x.s = 0 /\ x.n % x.d = 0

CalcInit ==
    /\ details \in UserDetails
    /\ results = NoResult
    /\ goalArgs = NoResult
    /\ goal = NoResult

Calculate ==
    /\ results = NoResult
    /\ results' = calculateCalories(details)
    /\ UNCHANGED <<details, goalArgs, goal, formVars, adminVars>>

GetGoal(maintenance, goalType) ==
    /\ goal = NoResult
    /\ goalArgs' = [maintenance |-> maintenance, goalType |-> goalType]
    /\ goal' = getGoalCalories(maintenance, goalType)
    /\ UNCHANGED <<details, results, formVars, adminVars>>

GetGoalFromResults ==
    /\ results # NoResult
    /\ \E g \in GoalTypes : GetGoal(results.maintenance_calories, g)

GetGoalFromStored ==
    \E m \in StoredMaintenance, g \in GoalTypes : GetGoal(m, g)

-----------------------------------------------------------------------------
(* PremiumDetails: parsing and validation *)

\* A string is a sequence of one-character strings.  The field texts drawn
\* below hold digits, a sign, a decimal point and an exponent mark: what a
\* number input can hold.  Leading blanks, hexadecimal and "Infinity" do not
\* occur in them and are not parsed.
NaN == [nan |-> TRUE]

IsNaN(x) == x = NaN

DigitChars == <<"0", "1", "2", "3", "4", "5", "6", "7", "8", "9">>

IsDigit(c) == \E k \in 1..10 : DigitChars[k] = c

DigitVal(c) == (CHOOSE k \in 1..10 : DigitChars[k] = c) - 1

CharAt(str, i) == IF i <= Len(str) THEN str[i] ELSE ""

\* Index after the longest run of digits that starts at i.
RECURSIVE DigitsEnd(_, _)
DigitsEnd(str, i) ==
    IF i <= Len(str) /\ IsDigit(str[i]) THEN DigitsEnd(str, i + 1) ELSE i

\* Decimal value of str[i] .. str[j-1].
RECURSIVE DigitsValue(_, _, _)
DigitsValue(str, i, j) ==
    IF j <= i THEN 0
    ELSE DigitsValue(str, i, j - 1) * 10 + DigitVal(str[j - 1])

RECURSIVE Pow10(_)
Pow10(k) == IF k <= 0 THEN 1 ELSE 10 * Pow10(k - 1)

SignEnd(str, i) == IF CharAt(str, i) \in {"-", "+"} THEN i + 1 ELSE i

SignOf(str, i) == IF CharAt(str, i) = "-" THEN -1 ELSE 1

\* parseInt(str): sign and the longest prefix of digits; NaN without a digit.
parseInt(str) ==
    LET b == SignEnd(str, 1)
        e == DigitsEnd(str, b)
    IN  IF e = b THEN NaN
        ELSE DInt(SignOf(str, 1) * DigitsValue(str, b, e))

\* parseFloat(str): the longest prefix that is a decimal literal (sign, digits,
\* fraction, exponent); NaN without a digit in the mantissa.  The double
\* nearest to a decimal compares with the integer bounds of detailsSchema as
\* the decimal itself does, so the value is held as the decimal.
parseFloat(str) ==
    LET b == SignEnd(str, 1)
        ie == DigitsEnd(str, b)
        hasDot == CharAt(str, ie) = "."
        fe == IF hasDot THEN DigitsEnd(str, ie + 1) ELSE ie
        fracLen == IF hasDot THEN fe - ie - 1 ELSE 0
        hasExp == CharAt(str, fe) \in {"e", "E"}
        xb == SignEnd(str, fe + 1)
        xe == DigitsEnd(str, xb)
        exp == IF hasExp /\ xe > xb
               THEN SignOf(str, fe + 1) * DigitsValue(str, xb, xe)
               ELSE 0
        mant == DigitsValue(str, b, ie) * Pow10(fracLen)
                  + (IF hasDot THEN DigitsValue(str, ie + 1, fe) ELSE 0)
    IN  IF (ie - b) + fracLen = 0 THEN NaN
        ELSE IF exp >= 0
        THEN DRat(SignOf(str, 1) * mant * Pow10(exp), Pow10(fracLen))
        ELSE DRat(SignOf(str, 1) * mant, Pow10(fracLen) * Pow10(-exp))

\* Variant of NumberIssues: the lower bound is not checked.
NumberIssuesNoMin(x, lo, hi, tooSmall, tooBig) ==
    IF IsNaN(x) THEN <<"Expected number, received nan">>
    ELSE IF DLt(DInt(hi), x) THEN <<tooBig>>
    ELSE <<>>

\* Issues of one z.number().min(lo, tooSmall).max(hi, tooBig): NaN is not a
\* number for zod.
NumberIssues(x, lo, hi, tooSmall, tooBig) ==
    IF IsNaN(x) THEN <<"Expected number, received nan">>
    ELSE IF DLt(x, DInt(lo)) THEN <<tooSmall>>
    ELSE IF DLt(DInt(hi), x) THEN <<tooBig>>
    ELSE <<>>

EnumIssues(v, options) ==
    IF v \in options THEN <<>> ELSE <<"Invalid enum value">>

\* error.errors of detailsSchema.parse(data), in schema order; empty when the
\* data is accepted.
detailsSchemaIssues(data) ==
    NumberIssues(data.height, HeightMin, HeightMax,
                 "Height must be at least 100 cm", "Height must be less than 250 cm")
    \o NumberIssues(data.weight, WeightMin, WeightMax,
                 "Weight must be at least 30 kg", "Weight must be less than 300 kg")
    \o NumberIssues(data.age, AgeMin, AgeMax,
                 "Age must be at least 13", "Age must be less than 100")
    \o EnumIssues(data.gender, Genders)
    \o EnumIssues(data.activity_level, ActivityLevels)

-----------------------------------------------------------------------------
(* PremiumDetails: the form *)

NoUser == "null"

Users == {"u1", "u2"}

NoToast == "none"

\* Route on which PremiumDetails is mounted; navigating away unmounts it.
FormRoute == "/premium-details"

AuthRoute == "/auth"

TrackerRoute == "/premium-nutrition-tracker"

\* Field texts the user types.
HeightTexts == {<<>>, <<"9", "9", ".", "5">>, <<"2", "5", "0">>}

WeightTexts == {<<>>, <<"3", "e", "1">>}

AgeTexts == {<<>>, <<"1", "3", ".", "9">>, <<"1", "e", "2">>}

\* Activity levels the user picks in the form, among the five options.
FormActivityLevels == {"moderately_active", "sedentary"}

Mounted == location = FormRoute

FormInit ==
    /\ height = <<>>
    /\ weight = <<>>
    /\ age = <<>>
    /\ gender = "male"
    /\ activityLevel = "moderately_active"
    /\ isLoading = FALSE
    /\ submitPc = "idle"
    /\ submitted = NoResult
    /\ upsertRequest = NoResult
    /\ user_details = {}
    /\ location = FormRoute
    /\ toast = NoToast
    /\ authChecked = FALSE

\* checkAuth of the mount effect: getSession resolved.
CheckAuth(hasSession) ==
    /\ ~authChecked
    /\ authChecked' = TRUE
    /\ location' = IF hasSession THEN location ELSE AuthRoute
    /\ UNCHANGED <<height, weight, age, gender, activityLevel, isLoading,
                   submitPc, submitted, upsertRequest, user_details, toast>>
    /\ UNCHANGED <<calcVars, adminVars>>

CheckAuthResolves == \E hasSession \in BOOLEAN : CheckAuth(hasSession)

FormRest ==
    <<isLoading, submitPc, submitted, upsertRequest, user_details, location,
      toast, authChecked>>

SetHeight ==
    /\ Mounted
    /\ \E v \in HeightTexts : height' = v
    /\ UNCHANGED <<weight, age, gender, activityLevel, FormRest, calcVars, adminVars>>

SetWeight ==
    /\ Mounted
    /\ \E v \in WeightTexts : weight' = v
    /\ UNCHANGED <<height, age, gender, activityLevel, FormRest, calcVars, adminVars>>

SetAge ==
    /\ Mounted
    /\ \E v \in AgeTexts : age' = v
    /\ UNCHANGED <<height, weight, gender, activityLevel, FormRest, calcVars, adminVars>>

SetGender ==
    /\ Mounted
    /\ \E v \in Genders : gender' = v
    /\ UNCHANGED <<height, weight, age, activityLevel, FormRest, calcVars, adminVars>>

SetActivityLevel ==
    /\ Mounted
    /\ \E v \in FormActivityLevels : activityLevel' = v
    /\ UNCHANGED <<height, weight, age, gender, FormRest, calcVars, adminVars>>

Fields == <<height, weight, age, gender, activityLevel>>

\* Variant of Finally: the handler ends without setIsLoading(false).
FinallyKeepsLoading ==
    /\ isLoading' = isLoading
    /\ submitPc' = "idle"
    /\ submitted' = NoResult

\* finally { setIsLoading(false) }: the handler is over.
Finally ==
    /\ isLoading' = FALSE
    /\ submitPc' = "idle"
    /\ submitted' = NoResult

\* handleSubmit up to its first await.  The submit button is disabled while
\* isLoading; the handler runs on the field values of the render it belongs to.
Submit ==
    /\ Mounted
    /\ ~isLoading
    /\ submitPc = "idle"
    /\ isLoading' = TRUE
    /\ submitPc' = "getUser"
    /\ submitted' = [height |-> height, weight |-> weight, age |-> age,
                     gender |-> gender, activityLevel |-> activityLevel]
    /\ UNCHANGED <<Fields, upsertRequest, user_details, location, toast,
                   authChecked, calcVars, adminVars>>

\* data of handleSubmit.
SubmittedData ==
    [height         |-> parseFloat(submitted.height),
     weight         |-> parseFloat(submitted.weight),
     age            |-> parseInt(submitted.age),
     gender         |-> submitted.gender,
     activity_level |-> submitted.activityLevel]

\* getUser resolved with user: from the test of user to the second await or to
\* the end of the handler.
SubmitGetUser(user) ==
    /\ submitPc = "getUser"
    /\ IF user = NoUser
       THEN /\ toast' = "You must be logged in"
            /\ location' = AuthRoute
            /\ Finally
            /\ UNCHANGED upsertRequest
       ELSE LET issues == detailsSchemaIssues(SubmittedData)
            IN  IF issues # <<>>
                THEN /\ toast' = issues[1]
                     /\ Finally
                     /\ UNCHANGED <<location, upsertRequest>>
                ELSE /\ upsertRequest' =
                            [user_id        |-> user,
                             height         |-> SubmittedData.height,
                             weight         |-> SubmittedData.weight,
                             age            |-> SubmittedData.age,
                             gender         |-> SubmittedData.gender,
                             activity_level |-> SubmittedData.activity_level]
                     /\ submitPc' = "upsert"
                     /\ UNCHANGED <<isLoading, submitted, location, toast>>
    /\ UNCHANGED <<Fields, user_details, authChecked, calcVars, adminVars>>

SubmitGetUserResolves == \E user \in Users \cup {NoUser} : SubmitGetUser(user)

\* getUser rejected: the catch block, then finally.
SubmitGetUserRejects ==
    /\ submitPc = "getUser"
    /\ toast' = "Failed to save details. Please try again."
    /\ Finally
    /\ UNCHANGED <<Fields, upsertRequest, user_details, location, authChecked,
                   calcVars, adminVars>>

\* upsert keyed by user_id.
Upsert(table, row) == {r \in table : r.user_id # row.user_id} \cup {row}

\* The upsert settled: with error (nothing stored) or without.
SubmitUpsert(error) ==
    /\ submitPc = "upsert"
    /\ IF error
       THEN /\ toast' = "Failed to save details. Please try again."
            /\ UNCHANGED <<user_details, location>>
       ELSE /\ user_details' = Upsert(user_details, upsertRequest)
            /\ toast' = "Details saved successfully!"
            /\ location' = TrackerRoute
    /\ upsertRequest' = NoResult
    /\ Finally
    /\ UNCHANGED <<Fields, authChecked, calcVars, adminVars>>

SubmitUpsertSettles == \E error \in BOOLEAN : SubmitUpsert(error)

-----------------------------------------------------------------------------
(* useAdminStatus *)

Null == [null |-> TRUE]

Roles == {"admin", "member"}

\* Number of times the query is fetched (first fetch and refetches).
MaxFetches == 2

AdminInit ==
    /\ session = NoUser
    /\ user_roles = {}
    /\ queryPc = "idle"
    /\ queryUser = NoUser
    /\ lookupIssued = FALSE
    /\ lookupResponse = NoResult
    /\ adminStatus = NoResult
    /\ fetches = 0

AdminRest ==
    <<queryPc, queryUser, lookupIssued, lookupResponse, adminStatus, fetches>>

\* The backend: users sign in and out, roles are granted and revoked.
SignIn ==
    /\ \E u \in Users : session' = u
    /\ UNCHANGED <<user_roles, AdminRest, calcVars, formVars>>

SignOut ==
    /\ session # NoUser
    /\ session' = NoUser
    /\ UNCHANGED <<user_roles, AdminRest, calcVars, formVars>>

GrantRole ==
    /\ \E u \in Users, r \in Roles :
          /\ [user_id |-> u, role |-> r] \notin user_roles
          /\ user_roles' = user_roles \cup {[user_id |-> u, role |-> r]}
    /\ UNCHANGED <<session, AdminRest, calcVars, formVars>>

RevokeRole ==
    /\ \E row \in user_roles : user_roles' = user_roles \ {row}
    /\ UNCHANGED <<session, AdminRest, calcVars, formVars>>

\* queryFn up to its first await.
StartQuery ==
    /\ queryPc = "idle"
    /\ fetches < MaxFetches
    /\ fetches' = fetches + 1
    /\ queryPc' = "getUser"
    /\ queryUser' = NoUser
    /\ lookupIssued' = FALSE
    /\ lookupResponse' = NoResult
    /\ UNCHANGED <<session, user_roles, adminStatus, calcVars, formVars>>

\* Variant of AdminResult: admin unless the lookup failed.
AdminResultFailOpen(user, response) ==
    [isAdmin |-> response.error = "null", userId |-> user]

\* Value returned after the lookup.
AdminResult(user, response) == [isAdmin |-> response.data # Null, userId |-> user]

\* getUser resolved: the signed-in user, or no user.
QueryGetUser(user) ==
    /\ queryPc = "getUser"
    /\ queryUser' = user
    /\ IF user = NoUser
       THEN /\ adminStatus' = [isAdmin |-> FALSE, userId |-> NoUser]
            /\ queryPc' = "idle"
            /\ UNCHANGED lookupIssued
       ELSE /\ lookupIssued' = TRUE
            /\ queryPc' = "lookup"
            /\ UNCHANGED adminStatus
    /\ UNCHANGED <<session, user_roles, lookupResponse, fetches, calcVars, formVars>>

QueryGetUserResolves == \E user \in {session, NoUser} : QueryGetUser(user)

\* Rows of user_roles with user_id = user and role = 'admin', through
\* maybeSingle: the row, or null.
AdminRow(user) ==
    IF [user_id |-> user, role |-> "admin"] \in user_roles
    THEN [role |-> "admin"]
    ELSE Null

\* The lookup settled: {data, error}; data is null when there is an error.
QueryLookup(failed) ==
    /\ queryPc = "lookup"
    /\ LET response == IF failed THEN [data |-> Null, error |-> "error"]
                       ELSE [data |-> AdminRow(queryUser), error |-> "null"]
       IN  /\ lookupResponse' = response
           /\ adminStatus' = AdminResult(queryUser, response)
    /\ queryPc' = "idle"
    /\ UNCHANGED <<session, user_roles, queryUser, lookupIssued, fetches,
                   calcVars, formVars>>

QueryLookupSettles == \E failed \in BOOLEAN : QueryLookup(failed)

-----------------------------------------------------------------------------
(* Specifications *)

\* The calculator alone: the form and the hook are not mounted.
Init == CalcInit /\ FormInit /\ AdminInit

Next == Calculate \/ GetGoalFromResults \/ GetGoalFromStored

Spec == Init /\ [][Next]_vars

\* Calculator variables while the calculator is not called.
CalcIdle ==
    /\ details = [height |-> DInt(175), weight |-> DInt(70), age |-> DInt(25),
                  gender |-> "male", activity_level |-> "moderately_active"]
    /\ results = NoResult
    /\ goalArgs = NoResult
    /\ goal = NoResult

FormSpecInit == CalcIdle /\ FormInit /\ AdminInit

FormNext ==
    \/ CheckAuthResolves
    \/ SetHeight
    \/ SetWeight
    \/ SetAge
    \/ SetGender
    \/ SetActivityLevel
    \/ Submit
    \/ SubmitGetUserResolves
    \/ SubmitGetUserRejects
    \/ SubmitUpsertSettles

SpecForm == FormSpecInit /\ [][FormNext]_vars

\* Each awaited backend call of handleSubmit eventually settles.
LiveSpecForm ==
    /\ SpecForm
    /\ WF_vars(SubmitGetUserResolves \/ SubmitGetUserRejects)
    /\ WF_vars(SubmitUpsertSettles)

AdminNext ==
    \/ SignIn
    \/ SignOut
    \/ GrantRole
    \/ RevokeRole
    \/ StartQuery
    \/ QueryGetUserResolves
    \/ QueryLookupSettles

SpecAdmin == FormSpecInit /\ [][AdminNext]_vars

-----------------------------------------------------------------------------
(* Properties of the calculator *)

Calculated == results # NoResult

GoalComputed == goal # NoResult

DEq(x, y) == x.s = 0 /\ y.s = 0 /\ x.n * y.d = y.n * x.d

\* detailsSchema accepts the numeric fields of d.
InValidatedRange(d) ==
    /\ InRange(d.height, HeightMin, HeightMax)
    /\ InRange(d.weight, WeightMin, WeightMax)
    /\ InRange(d.age, AgeMin, AgeMax)

\* C1: for details inside the validated ranges, whenever maintenance_calories
\* is positive, cut_calories < maintenance_calories < bulk_calories, both
\* strictly.
C1_CutBelowMaintenanceBelowBulk ==
    (Calculated /\ InValidatedRange(details) /\ results.maintenance_calories > 0)
        => /\ results.cut_calories < results.maintenance_calories
           /\ results.maintenance_calories < results.bulk_calories

\* The smallest validated person: the smallest maintenance the range allows.
C1_Witness ==
    /\ Calculated
    /\ InValidatedRange(details)
    /\ details.weight = DRat(2 * WeightMin, 2)
    /\ details.height = DRat(2 * HeightMin, 2)
    /\ details.age = DInt(AgeMax)
    /\ details.gender = "female"
    /\ details.activity_level = "sedentary"
    /\ results.maintenance_calories > 0

C2Details ==
    [height |-> DRat(360, 2), weight |-> DRat(160, 2), age |-> DInt(30),
     gender |-> "male", activity_level |-> "moderately_active"]

C2Bmr == calculateBMR(C2Details.weight, C2Details.height, C2Details.age,
                      C2Details.gender)

\* C2 as stated: male, 30 y, 80 kg, 180 cm, moderately_active has BMR 1805
\* and results 2798 / 2238 / 3217 / 160 / 78 / 365.
C2_AsStated ==
    (Calculated /\ details = C2Details)
        => /\ DEq(C2Bmr, DInt(1805))
           /\ results = [maintenance_calories |-> 2798, cut_calories |-> 2238,
                         bulk_calories |-> 3217, protein_grams |-> 160,
                         fat_grams |-> 78, carbs_grams |-> 365]

\* C2 amended: male, 30 y, 80 kg, 180 cm, moderately_active has BMR 1780 and
\* maintenance 2759, cut 2207, bulk 3173, protein 160, fat 77, carbs 357.
C2_WorkedExample ==
    (Calculated /\ details = C2Details)
        => /\ DEq(C2Bmr, DInt(1780))
           /\ results = [maintenance_calories |-> 2759, cut_calories |-> 2207,
                         bulk_calories |-> 3173, protein_grams |-> 160,
                         fat_grams |-> 77, carbs_grams |-> 357]

C2_Witness == Calculated /\ details = C2Details

C3Args == [maintenance |-> 2500, goalType |-> "bulk"]

\* C3 as stated: getGoalCalories(2500, 'bulk') returns calories 2875,
\* protein 216, fat 80, carbs 324.
C3_AsStated ==
    (GoalComputed /\ goalArgs = C3Args)
        => goal = [calories |-> 2875, protein |-> 216, fat |-> 80, carbs |-> 324]

\* C3 amended: getGoalCalories(2500, 'bulk') returns calories 2875,
\* protein 216, fat 80, carbs 323, each macro being the independently rounded
\* share of the rounded target: round(2875 * 0.3 / 4), round(2875 * 0.25 / 9),
\* round(2875 * 0.45 / 4).
C3_BulkExample ==
    (GoalComputed /\ goalArgs = C3Args)
        => /\ goal = [calories |-> 2875, protein |-> 216, fat |-> 80, carbs |-> 323]
           /\ goal.protein = MathRound(DRat(2875 * 3, 10 * 4))
           /\ goal.fat = MathRound(DRat(2875, 4 * 9))
           /\ goal.carbs = MathRound(DRat(2875 * 9, 20 * 4))

C3_Witness == GoalComputed /\ goalArgs = C3Args

\* C4: a UserDetails that differs from the calculated one only by a weight
\* that is no smaller has a maintenance_calories that is no smaller.
C4_MonotoneInWeight ==
    Calculated =>
        \A w \in Weights :
            DLe(details.weight, w) =>
                results.maintenance_calories
                    <= calculateCalories([details EXCEPT !.weight = w]).maintenance_calories

\* A calculated result for which a strictly heavier sample exists.
C4_Witness ==
    /\ Calculated
    /\ InValidatedRange(details)
    /\ \E w \in Weights :
          /\ DLt(details.weight, w)
          /\ results.maintenance_calories
                 < calculateCalories([details EXCEPT !.weight = w]).maintenance_calories

\* C5: getGoalCalories applied to the maintenance_calories of a calculated
\* result returns cut_calories for 'cut', bulk_calories for 'bulk' and the
\* maintenance itself for 'maintain'.
C5_GoalTargetsAgree ==
    (Calculated /\ GoalComputed
        /\ goalArgs.maintenance = results.maintenance_calories)
        => goal.calories =
              (IF goalArgs.goalType = "cut" THEN results.cut_calories
               ELSE IF goalArgs.goalType = "bulk" THEN results.bulk_calories
               ELSE results.maintenance_calories)

\* A bulk target at a maintenance where maintenance * 1.15 is a half-way case
\* (maintenance = 10 mod 20).
C5_Witness ==
    /\ Calculated
    /\ GoalComputed
    /\ goalArgs.maintenance = results.maintenance_calories
    /\ goalArgs.goalType = "bulk"
    /\ results.maintenance_calories % 20 = 10

AllPositive(d) == d.height.n > 0 /\ d.weight.n > 0 /\ d.age.n > 0

\* carb_calories, recovered from the returned fields.
CarbCalories(r) ==
    r.maintenance_calories - 4 * r.protein_grams
        - FatCaloriesOf(r.maintenance_calories)

\* C6: the carbohydrate remainder is not clamped: whenever carb_calories is
\* negative enough to round below zero, the returned carbs_grams is negative,
\* and carbs_grams is always the rounded quarter of carb_calories.
C6_NoClamping ==
    Calculated =>
        /\ CarbCalories(results) < -2 => results.carbs_grams < 0
        /\ results.carbs_grams = MathRound(DRat(CarbCalories(results), 4))

\* A low-weight sedentary person, every numeric field positive, with a negative
\* carb_calories and a negative carbs_grams.
C6_Witness ==
    /\ Calculated
    /\ AllPositive(details)
    /\ details.activity_level = "sedentary"
    /\ DLe(details.weight, DInt(WeightMin))
    /\ CarbCalories(results) < 0
    /\ results.carbs_grams < 0

\* C8: for integer height, weight and age inside the validated ranges, all six
\* returned fields are >= 0.
C8_NonNegativeOnValidatedIntegers ==
    (Calculated /\ InValidatedRange(details)
        /\ IsInteger(details.height) /\ IsInteger(details.weight)
        /\ IsInteger(details.age))
        => /\ results.maintenance_calories >= 0
           /\ results.cut_calories >= 0
           /\ results.bulk_calories >= 0
           /\ results.protein_grams >= 0
           /\ results.carbs_grams >= 0
           /\ results.fat_grams >= 0

\* The validated integer input whose carb_calories is -2: Math.round(-0.5)
\* is 0.
C8_Witness ==
    /\ Calculated
    /\ InValidatedRange(details)
    /\ IsInteger(details.height) /\ IsInteger(details.weight)
    /\ CarbCalories(results) = -2
    /\ results.carbs_grams = 0

-----------------------------------------------------------------------------
(* Properties of PremiumDetails *)

\* A record within the bounds that detailsSchema states, said without the
\* schema's own code.
ValidRecord(r) ==
    /\ ~IsNaN(r.height) /\ InRange(r.height, HeightMin, HeightMax)
    /\ ~IsNaN(r.weight) /\ InRange(r.weight, WeightMin, WeightMax)
    /\ ~IsNaN(r.age) /\ InRange(r.age, AgeMin, AgeMax)
    /\ r.gender \in Genders
    /\ r.activity_level \in ActivityLevels

\* C7: an upsert is issued only by a handler to which getUser returned a user
\* and whose data detailsSchema accepted, so the request in flight and every
\* stored row are within the validated ranges and enumerations; a handler whose
\* data is not valid ends without issuing an upsert and without navigating to
\* '/premium-nutrition-tracker'.
C7_ValidationGatesPersistence ==
    /\ [](/\ upsertRequest # NoResult =>
                /\ submitPc = "upsert"
                /\ upsertRequest.user_id \in Users
                /\ ValidRecord(upsertRequest)
          /\ \A row \in user_details : row.user_id \in Users /\ ValidRecord(row))
    /\ [][/\ (upsertRequest' # upsertRequest /\ upsertRequest' # NoResult)
                => submitPc = "getUser" /\ ValidRecord(SubmittedData)
          /\ (submitPc = "getUser" /\ ~ValidRecord(SubmittedData))
                => /\ upsertRequest' = NoResult
                   /\ user_details' = user_details
                   /\ submitPc' \in {"getUser", "idle"}
                   /\ location' # TrackerRoute
          /\ (location' = TrackerRoute /\ location # TrackerRoute)
                => submitPc = "upsert" /\ upsertRequest \in user_details']_vars

\* A validated row was stored and the form navigated to the tracker.
C7_Witness ==
    /\ location = TrackerRoute
    /\ \E row \in user_details : ValidRecord(row) /\ row.age = DInt(AgeMin)

\* C9: isLoading set to true by handleSubmit is eventually set back to false,
\* and it is false whenever no handler is running.
C9_LoadingEventuallyCleared ==
    /\ [](submitPc = "idle" => ~isLoading)
    /\ (isLoading ~> ~isLoading)

\* A handler has run to its end through the catch block.
C9_Witness ==
    /\ submitPc = "idle"
    /\ ~isLoading
    /\ toast = "Failed to save details. Please try again."

-----------------------------------------------------------------------------
(* Properties of useAdminStatus *)

QueryReturned == queryPc = "idle" /\ fetches > 0

\* C10: the value a finished queryFn returned has isAdmin = TRUE only if
\* getUser returned a user and the lookup for that user returned a row; without
\* a user it is {isAdmin: false, userId: null} and no lookup was issued; with a
\* lookup that failed or found no row it is isAdmin = FALSE with the user's id.
C10_AdminFailsClosed ==
    /\ queryPc = "getUser" => ~lookupIssued
    /\ QueryReturned =>
          /\ adminStatus.isAdmin =>
                /\ queryUser \in Users
                /\ lookupIssued
                /\ lookupResponse # NoResult
                /\ lookupResponse.data # Null
                /\ lookupResponse.error = "null"
                /\ adminStatus.userId = queryUser
          /\ queryUser = NoUser =>
                /\ adminStatus = [isAdmin |-> FALSE, userId |-> NoUser]
                /\ ~lookupIssued
                /\ lookupResponse = NoResult
          /\ (queryUser # NoUser
                /\ (lookupResponse.error # "null" \/ lookupResponse.data = Null))
                => adminStatus = [isAdmin |-> FALSE, userId |-> queryUser]

\* A signed-in user whose lookup failed although the admin row exists.
C10_Witness ==
    /\ QueryReturned
    /\ queryUser \in Users
    /\ [user_id |-> queryUser, role |-> "admin"] \in user_roles
    /\ lookupResponse # NoResult
    /\ lookupResponse.error # "null"
    /\ ~adminStatus.isAdmin

====
